---- MODULE Spec2Model ----
(***************************************************************************)
(* The download queue and worker-pool manager of src/downloader.py         *)
(* (class DownloadManager) as a state machine.  One action per step of a   *)
(* thread between two accesses to shared state: the facade calls           *)
(* (add_to_queue, get_download_status, cancel_download, start, stop), the  *)
(* steps of the scheduling loop _process_queue, the thread pool picking up *)
(* a work item, and the steps of the worker routine _download_game.        *)
(***************************************************************************)
EXTENDS Integers, Sequences, FiniteSets, TLC

\* ------------------------------------------------------------------ bounds

\* Number of add_to_queue calls explored (download ids are 1..MaxJobs).
MaxJobs == 2

\* Number of scheduling-loop threads that may exist at the same time.
MaxLoops == 2

\* --------------------------------------------------------------- constants

\* settings.MAX_CONCURRENT_DOWNLOADS (environment-configurable).
MAX_CONCURRENT_DOWNLOADS == 1

\* settings.MAX_HISTORY_SIZE (environment-configurable).
MAX_HISTORY_SIZE == 1

Ids == 1..MaxJobs

Loops == 1..MaxLoops

\* DownloadStatus
QUEUED == "queued"

DOWNLOADING == "downloading"

COMPLETED == "completed"

FAILED == "failed"

CANCELED == "canceled"

Terminal == {COMPLETED, FAILED, CANCELED}

\* status of an identifier that add_to_queue has not issued (no record exists)
NoRecord == "none"

\* DownloadRequest: the two fields _download_game branches on.
Requests == [anonymous : BOOLEAN, install_dir : BOOLEAN]

\* What the Steam Store request of get_steam_app_info can come to: it raises
\* (network, HTTP status, JSON), it answers without success, or it answers
\* with a data object that has a name, has none, or is empty.
Responses == {"raises", "no_success", "data_named", "data_unnamed", "data_empty"}

\* get_steam_app_info: the data object of a successful answer, else None.
GetSteamAppInfo(response) ==
    IF response \in {"raises", "no_success"} THEN "None" ELSE response

\* Mutant of GameName: no placeholder, the name is left empty.
GameNameNoFallback(game_info) ==
    IF game_info = "data_named" THEN "Game" ELSE ""

\* game_info.get("name", "Unknown Game") if game_info else "Unknown Game"
GameName(game_info) ==
    IF game_info \in {"None", "data_empty"} THEN "Unknown Game"
    ELSE IF game_info = "data_named" THEN "Game"
    ELSE "Unknown Game"

\* DownloadInfo as add_to_queue constructs it; end_time 0 and error_message
\* "None" stand for Python's None.
NewInfo(name) ==
    [name |-> name, status |-> QUEUED, progress |-> 0, end_time |-> 0,
     error_message |-> "None"]

NoInfo ==
    [name |-> "None", status |-> NoRecord, progress |-> 0, end_time |-> 0,
     error_message |-> "None"]

\* The request of an id no thread holds (any more): the DownloadRequest defaults.
NoRequest == [anonymous |-> TRUE, install_dir |-> FALSE]

\* No facade call returned in the last step.
NoRet == [op |-> "none", id |-> 0, val |-> "None"]

\* No get_all_downloads result is held by a caller.
NoListing ==
    [taken |-> FALSE, active |-> {}, history |-> <<>>,
     status |-> [j \in Ids |-> NoRecord]]

VARIABLES
    running,            \* self.running
    lock,               \* holder of self.lock across a blocking call: "free" | "stop"
    queue_thread,       \* self.queue_thread: a loop thread, 0 for None
    download_queue,     \* self.download_queue: sequence of download ids
    active_downloads,   \* keys of self.active_downloads
    download_history,   \* self.download_history, newest first
    futures,            \* keys of self.futures
    info,               \* the DownloadInfo record of every id
    request,            \* the DownloadRequest submitted with every id
    nextId,             \* next identifier generate_download_id returns
    clock,              \* value the next datetime.now() returns
    loop,               \* per scheduling-loop thread: [pc, id]
    shutdown,           \* the executor has been shut down
    work_queue,         \* the executor's pending work items
    task,               \* per id: state of the future / position of its worker
    outcome,            \* per id: the worker's locals (success, error_message)
    ret,                \* the last facade call and what it returned
    listed              \* a get_all_downloads result its caller has kept

vars == <<running, lock, queue_thread, download_queue, active_downloads,
          download_history, futures, info, request, nextId, clock, loop,
          shutdown, work_queue, task, outcome, ret, listed>>

\* ------------------------------------------------------------------ helpers

\* Positions of a worker that is executing _download_game on a pool thread.
RunningTasks == {"login", "fetch", "update"}

\* Future.done()
FutureDone(j) == task[j] \in {"cancelled", "done"}

\* Future.cancel(): only a pending future is cancelled.
FutureCancel(t, j) == IF t[j] = "pending" THEN [t EXCEPT ![j] = "cancelled"] ELSE t

\* Mutant of MoveToHistory: the insertion without the truncation.
MoveToHistoryNoPop(h, id) == <<id>> \o h

\* Mutant of MoveToHistory: a full history keeps its entries and drops the
\* new one.
MoveToHistoryKeepOld(h, id) ==
    LET ins == <<id>> \o h
    IN  IF Len(ins) > MAX_HISTORY_SIZE THEN Tail(ins) ELSE ins

\* download_history.insert(0, download); pop() when over MAX_HISTORY_SIZE.
MoveToHistory(h, id) ==
    LET ins == <<id>> \o h
    IN  IF Len(ins) > MAX_HISTORY_SIZE THEN SubSeq(ins, 1, Len(ins) - 1) ELSE ins

InHistory(id) == \E i \in 1..Len(download_history) : download_history[i] = id

InQueue(id) == \E i \in 1..Len(download_queue) : download_queue[i] = id

\* ------------------------------------------------------------------- Init

Init ==
    /\ running = FALSE
    /\ lock = "free"
    /\ queue_thread = 0
    /\ download_queue = <<>>
    /\ active_downloads = {}
    /\ download_history = <<>>
    /\ futures = {}
    /\ info = [j \in Ids |-> NoInfo]
    /\ request = [j \in Ids |-> NoRequest]
    /\ nextId = 1
    /\ clock = 1
    /\ loop = [t \in Loops |-> [pc |-> "unborn", id |-> 0]]
    /\ shutdown = FALSE
    /\ work_queue = <<>>
    /\ task = [j \in Ids |-> "none"]
    /\ outcome = [j \in Ids |-> "none"]
    /\ ret = NoRet
    /\ listed = NoListing

\* ----------------------------------------------------------- facade calls

\* start(): under the lock, create and start the loop thread unless running.
Start ==
    /\ lock = "free"
    /\ ~running
    /\ \E t \in Loops :
        /\ loop[t].pc \in {"unborn", "dead"}
        /\ \A u \in Loops : (u < t) => loop[u].pc \notin {"unborn", "dead"}
        /\ loop' = [loop EXCEPT ![t] = [pc |-> "while", id |-> 0]]
        /\ queue_thread' = t
    /\ running' = TRUE
    /\ ret' = [op |-> "start", id |-> 0, val |-> "None"]
    /\ UNCHANGED listed
    /\ UNCHANGED <<lock, download_queue, active_downloads, download_history,
                   futures, info, request, nextId, clock, shutdown, work_queue,
                   task, outcome>>

\* routes.py line 5: the manager the routes call is the instance created at
\* module scope in downloader.py (line 205).
RoutesManager == "downloader.download_manager"

\* main.py line 44: main.py creates an instance of its own, and line 80
\* starts that one.
MainManager == "main.download_manager"

\* main(), line 80: download_manager.start().  It is a start() of the routes'
\* manager only if the two instances are the same object.
MainStart ==
    IF MainManager = RoutesManager
    THEN Start
    ELSE /\ ret' = [op |-> "main", id |-> 0, val |-> "None"]
         /\ UNCHANGED <<running, lock, queue_thread, download_queue,
                        active_downloads, download_history, futures, info,
                        request, nextId, clock, loop, shutdown, work_queue,
                        task, outcome, listed>>

\* stop(), first part: take the lock, clear running, cancel every future that
\* is not done; the lock stays held while stop() joins the loop thread.
StopBegin ==
    /\ lock = "free"
    /\ running
    /\ running' = FALSE
    /\ task' = [j \in Ids |->
                  IF j \in futures /\ ~FutureDone(j) THEN FutureCancel(task, j)[j] ELSE task[j]]
    /\ lock' = "stop"
    /\ ret' = [op |-> "stop", id |-> 0, val |-> "None"]
    /\ UNCHANGED listed
    /\ UNCHANGED <<queue_thread, download_queue, active_downloads,
                   download_history, futures, info, request, nextId, clock,
                   loop, shutdown, work_queue, outcome>>

\* The loop thread waits for self.lock (lines 141 and 149).
BlockedOnLock(t) == loop[t].pc \in {"mark", "store"}

\* Mutant of JoinReturns: a join without the timeout.
JoinReturnsNoTimeout ==
    IF queue_thread = 0 THEN TRUE
    ELSE loop[queue_thread].pc = "dead"

\* lines 55-56: queue_thread.join(timeout=5) returns when the loop thread has
\* ended, or by timeout while that thread waits for the lock stop() holds (a
\* loop thread that is not waiting for the lock reaches its end, or such a
\* wait, within the five seconds).
JoinReturns ==
    IF queue_thread = 0 THEN TRUE
    ELSE loop[queue_thread].pc = "dead" \/ BlockedOnLock(queue_thread)

\* stop(), second part: the join returns, then executor.shutdown(wait=False)
\* and the lock is released.
StopFinish ==
    /\ lock = "stop"
    /\ JoinReturns
    /\ shutdown' = TRUE
    /\ lock' = "free"
    /\ UNCHANGED <<running, queue_thread, download_queue, active_downloads,
                   download_history, futures, info, request, nextId, clock,
                   loop, work_queue, task, outcome>>
    /\ ret' = NoRet
    /\ UNCHANGED listed

\* Mutant of AddToQueue: a submission for a package that already has a job
\* waiting in the queue returns that job's id and enqueues nothing.
AddToQueueDedup(req, response) ==
    /\ lock = "free"
    /\ nextId <= MaxJobs
    /\ IF download_queue # <<>>
       THEN /\ ret' = [op |-> "add_to_queue", id |-> Head(download_queue), val |-> "id"]
            /\ UNCHANGED <<info, request, download_queue, nextId>>
       ELSE /\ info' = [info EXCEPT ![nextId] = NewInfo(GameName(GetSteamAppInfo(response)))]
            /\ request' = [request EXCEPT ![nextId] = req]
            /\ download_queue' = Append(download_queue, nextId)
            /\ nextId' = nextId + 1
            /\ ret' = [op |-> "add_to_queue", id |-> nextId, val |-> "id"]
    /\ UNCHANGED listed
    /\ UNCHANGED <<running, lock, queue_thread, active_downloads,
                   download_history, futures, clock, loop, shutdown,
                   work_queue, task, outcome>>

\* add_to_queue(app_id, request): a fresh id, the name looked up, a Queued
\* record, put at the tail.  app_id is used for the name lookup and stored in
\* the record, nothing else reads it: every submission of the model is for
\* the same package.
AddToQueue(req, response) ==
    /\ lock = "free"
    /\ nextId <= MaxJobs
    /\ info' = [info EXCEPT ![nextId] = NewInfo(GameName(GetSteamAppInfo(response)))]
    /\ request' = [request EXCEPT ![nextId] = req]
    /\ download_queue' = Append(download_queue, nextId)
    /\ nextId' = nextId + 1
    /\ ret' = [op |-> "add_to_queue", id |-> nextId, val |-> "id"]
    /\ UNCHANGED listed
    /\ UNCHANGED <<running, lock, queue_thread, active_downloads,
                   download_history, futures, clock, loop, shutdown,
                   work_queue, task, outcome>>

\* Mutant of StatusLookup: an id that is not found yields a Queued record.
StatusLookupDefault(id) ==
    IF id \in active_downloads THEN info[id].status
    ELSE IF InHistory(id) THEN info[id].status
    ELSE QUEUED

\* What get_download_status(id) returns: the record found in the active set,
\* else in the history, else None.
StatusLookup(id) ==
    IF id \in active_downloads THEN info[id].status
    ELSE IF InHistory(id) THEN info[id].status
    ELSE "None"

GetDownloadStatus(id) ==
    /\ lock = "free"
    /\ ret' = [op |-> "get_download_status", id |-> id, val |-> StatusLookup(id)]
    /\ UNCHANGED listed
    /\ UNCHANGED <<running, lock, queue_thread, download_queue,
                   active_downloads, download_history, futures, info, request,
                   nextId, clock, loop, shutdown, work_queue, task, outcome>>

\* What a caller that kept a get_all_downloads result reads in it later:
\* result["active"] is a list built by the call (line 102), result["history"]
\* is self.download_history itself (line 103), and the entries of both are
\* the manager's own DownloadInfo objects.
ResultActive == listed.active

ResultHistory == download_history

ResultRecord(j) == info[j]

\* Mutant of GetAllDownloads: the call hands the history over and empties it.
GetAllDownloadsDraining(keep) ==
    /\ lock = "free"
    /\ ret' = [op |-> "get_all_downloads", id |-> 0, val |-> "dict"]
    /\ download_history' = <<>>
    /\ UNCHANGED listed
    /\ UNCHANGED <<running, lock, queue_thread, download_queue,
                   active_downloads, futures, info, request,
                   nextId, clock, loop, shutdown, work_queue, task, outcome>>

\* get_all_downloads(): under the lock, build {"active": list(...values()),
\* "history": self.download_history} and return it.  keep says whether the
\* caller holds on to the result; a result that is kept is recorded with what
\* the two collections and the records in them showed when the call returned.
GetAllDownloads(keep) ==
    /\ lock = "free"
    /\ ret' = [op |-> "get_all_downloads", id |-> 0, val |-> "dict"]
    /\ listed' = IF keep
                 THEN [taken |-> TRUE,
                       active |-> active_downloads,
                       history |-> download_history,
                       status |-> [j \in Ids |->
                                     IF j \in active_downloads \/ InHistory(j)
                                     THEN info[j].status ELSE NoRecord]]
                 ELSE listed
    /\ UNCHANGED <<running, lock, queue_thread, download_queue,
                   active_downloads, download_history, futures, info, request,
                   nextId, clock, loop, shutdown, work_queue, task, outcome>>

\* Mutant of CancelFinds: the lookup also finds a job already in the history.
CancelFindsHistory(id) == id \in active_downloads \/ InHistory(id)

\* Mutant of CancelFinds: a job whose worker is running is not cancelled.
CancelFindsIdle(id) == id \in active_downloads /\ task[id] \notin RunningTasks

\* cancel_download looks the id up in the active set only.
CancelFinds(id) == id \in active_downloads

\* cancel_download(id)
CancelDownload(id) ==
    /\ lock = "free"
    /\ IF CancelFinds(id)
       THEN /\ task' = IF id \in futures THEN FutureCancel(task, id) ELSE task
            /\ info' = [info EXCEPT ![id].status = CANCELED, ![id].end_time = clock]
            /\ clock' = clock + 1
            /\ download_history' = MoveToHistory(download_history, id)
            /\ active_downloads' = active_downloads \ {id}
            /\ futures' = futures \ {id}
            /\ ret' = [op |-> "cancel_download", id |-> id, val |-> "True"]
       ELSE /\ ret' = [op |-> "cancel_download", id |-> id, val |-> "False"]
            /\ UNCHANGED <<task, info, clock, download_history,
                           active_downloads, futures>>
    /\ UNCHANGED <<running, lock, queue_thread, download_queue, request,
                   nextId, loop, shutdown, work_queue, outcome, listed>>

\* ------------------------------------------------- _process_queue (per thread)

\* line 135: while self.running (after the sleep of the previous iteration)
SchedWhile(t) ==
    /\ loop[t].pc = "while"
    /\ loop' = [loop EXCEPT ![t].pc = IF running THEN "poll" ELSE "dead"]
    /\ UNCHANGED <<running, lock, queue_thread, download_queue,
                   active_downloads, download_history, futures, info, request,
                   nextId, clock, shutdown, work_queue, task, outcome>>
    /\ ret' = NoRet
    /\ UNCHANGED listed

\* Mutant of HasCapacity: <= in place of <.
HasCapacityOffByOne == Cardinality(active_downloads) <= MAX_CONCURRENT_DOWNLOADS

\* line 138: the capacity gate, read without the lock
HasCapacity == Cardinality(active_downloads) < MAX_CONCURRENT_DOWNLOADS

SchedPoll(t) ==
    /\ loop[t].pc = "poll"
    /\ loop' = [loop EXCEPT ![t].pc =
                  IF download_queue # <<>> /\ HasCapacity THEN "get" ELSE "while"]
    /\ UNCHANGED <<running, lock, queue_thread, download_queue,
                   active_downloads, download_history, futures, info, request,
                   nextId, clock, shutdown, work_queue, task, outcome>>
    /\ ret' = NoRet
    /\ UNCHANGED listed

\* Mutant of QueueGet: the newest entry is removed and returned.
QueueGetLast(q) == [item |-> q[Len(q)], rest |-> SubSeq(q, 1, Len(q) - 1)]

\* download_queue.get(block=False) on a non-empty queue.Queue: the oldest
\* entry is removed and returned.
QueueGet(q) == [item |-> Head(q), rest |-> Tail(q)]

\* line 139: dequeue; queue.Empty sends the thread to the sleep
SchedGet(t) ==
    /\ loop[t].pc = "get"
    /\ IF download_queue = <<>>
       THEN /\ loop' = [loop EXCEPT ![t] = [pc |-> "while", id |-> 0]]
            /\ UNCHANGED download_queue
       ELSE /\ loop' = [loop EXCEPT ![t] = [pc |-> "mark", id |-> QueueGet(download_queue).item]]
            /\ download_queue' = QueueGet(download_queue).rest
    /\ UNCHANGED <<running, lock, queue_thread, active_downloads,
                   download_history, futures, info, request, nextId, clock,
                   shutdown, work_queue, task, outcome>>
    /\ ret' = NoRet
    /\ UNCHANGED listed

\* lines 141-144: under the lock, mark Downloading and register as active
SchedMark(t) ==
    /\ loop[t].pc = "mark"
    /\ lock = "free"
    /\ info' = [info EXCEPT ![loop[t].id].status = DOWNLOADING]
    /\ active_downloads' = active_downloads \cup {loop[t].id}
    /\ loop' = [loop EXCEPT ![t].pc = "submit"]
    /\ UNCHANGED <<running, lock, queue_thread, download_queue,
                   download_history, futures, request, nextId, clock, shutdown,
                   work_queue, task, outcome>>
    /\ ret' = NoRet
    /\ UNCHANGED listed

\* line 147: executor.submit; after shutdown it raises RuntimeError, which
\* the handler of line 153 logs before the sleep
SchedSubmit(t) ==
    /\ loop[t].pc = "submit"
    /\ IF shutdown
       THEN /\ loop' = [loop EXCEPT ![t] = [pc |-> "while", id |-> 0]]
            /\ request' = [request EXCEPT ![loop[t].id] = NoRequest]
            /\ UNCHANGED <<task, work_queue>>
       ELSE /\ task' = [task EXCEPT ![loop[t].id] = "pending"]
            /\ work_queue' = Append(work_queue, loop[t].id)
            /\ loop' = [loop EXCEPT ![t].pc = "store"]
            /\ UNCHANGED request
    /\ UNCHANGED <<running, lock, queue_thread, download_queue,
                   active_downloads, download_history, futures, info,
                   nextId, clock, shutdown, outcome>>
    /\ ret' = NoRet
    /\ UNCHANGED listed

\* lines 149-150: under the lock, store the future
SchedStore(t) ==
    /\ loop[t].pc = "store"
    /\ lock = "free"
    /\ futures' = futures \cup {loop[t].id}
    /\ loop' = [loop EXCEPT ![t] = [pc |-> "while", id |-> 0]]
    /\ UNCHANGED <<running, lock, queue_thread, download_queue,
                   active_downloads, download_history, info, request, nextId,
                   clock, shutdown, work_queue, task, outcome>>
    /\ ret' = NoRet
    /\ UNCHANGED listed

\* ------------------------------------------------ thread pool and worker

\* Mutant of PoolThreadFree: the pool starts a thread for every work item.
PoolThreadFreeAlways == TRUE

\* A pool thread is free when fewer than max_workers work items are running.
PoolThreadFree ==
    Cardinality({j \in Ids : task[j] \in RunningTasks}) < MAX_CONCURRENT_DOWNLOADS

\* A pool thread takes the oldest work item; a cancelled future is dropped,
\* otherwise _download_game runs up to its first blocking call (lines 160-173):
\* Path is not imported, so an install_dir override raises NameError.
WorkerTake ==
    /\ work_queue # <<>>
    /\ PoolThreadFree
    /\ LET j == Head(work_queue)
       IN  /\ work_queue' = Tail(work_queue)
           /\ request' = [request EXCEPT ![j] = NoRequest]
           /\ IF task[j] = "cancelled"
              THEN UNCHANGED <<task, outcome>>
              ELSE IF request[j].install_dir
              THEN /\ task' = [task EXCEPT ![j] = "update"]
                   /\ outcome' = [outcome EXCEPT ![j] = "name 'Path' is not defined"]
              ELSE /\ task' = [task EXCEPT ![j] =
                                 IF request[j].anonymous THEN "fetch" ELSE "login"]
                   /\ UNCHANGED outcome
    /\ UNCHANGED <<running, lock, queue_thread, download_queue,
                   active_downloads, download_history, futures, info,
                   nextId, clock, loop, shutdown>>
    /\ ret' = NoRet
    /\ UNCHANGED listed

\* Mutant of WorkerLogin: the result of the login is ignored.
WorkerLoginIgnored(j, ok) ==
    /\ task[j] = "login"
    /\ task' = [task EXCEPT ![j] = "fetch"]
    /\ UNCHANGED <<running, lock, queue_thread, download_queue,
                   active_downloads, download_history, futures, info, request,
                   nextId, clock, loop, shutdown, work_queue, outcome>>
    /\ ret' = NoRet
    /\ UNCHANGED listed

\* line 172: steam_cmd.login returns True or False (it raises nothing)
WorkerLogin(j, ok) ==
    /\ task[j] = "login"
    /\ IF ok
       THEN /\ task' = [task EXCEPT ![j] = "fetch"]
            /\ UNCHANGED outcome
       ELSE /\ task' = [task EXCEPT ![j] = "update"]
            /\ outcome' = [outcome EXCEPT ![j] = "Steam login failed"]
    /\ UNCHANGED <<running, lock, queue_thread, download_queue,
                   active_downloads, download_history, futures, info, request,
                   nextId, clock, loop, shutdown, work_queue>>
    /\ ret' = NoRet
    /\ UNCHANGED listed

\* Mutant of WorkerFetch: the result of the fetch is taken for its opposite.
WorkerFetchInverted(j, ok) ==
    /\ task[j] = "fetch"
    /\ task' = [task EXCEPT ![j] = "update"]
    /\ outcome' = [outcome EXCEPT ![j] = IF ok THEN "Steam download failed" ELSE "success"]
    /\ UNCHANGED <<running, lock, queue_thread, download_queue,
                   active_downloads, download_history, futures, info, request,
                   nextId, clock, loop, shutdown, work_queue>>
    /\ ret' = NoRet
    /\ UNCHANGED listed

\* line 176: steam_cmd.download_game returns True, or False (failure, timeout)
WorkerFetch(j, ok) ==
    /\ task[j] = "fetch"
    /\ task' = [task EXCEPT ![j] = "update"]
    /\ outcome' = [outcome EXCEPT ![j] = IF ok THEN "success" ELSE "Steam download failed"]
    /\ UNCHANGED <<running, lock, queue_thread, download_queue,
                   active_downloads, download_history, futures, info, request,
                   nextId, clock, loop, shutdown, work_queue>>
    /\ ret' = NoRet
    /\ UNCHANGED listed

\* Mutant of FinalProgress: the progress is set to 100 whatever the result.
FinalProgressAlways(success, progress) == 100

\* line 191: download.progress = 100.0 if success else download.progress
FinalProgress(success, progress) == IF success THEN 100 ELSE progress

\* Mutant of UpdateFinds: the terminal update is applied without the check.
UpdateFindsAlways(j) == TRUE

\* line 187: the worker's terminal update applies only to a job still active
UpdateFinds(j) == j \in active_downloads

\* lines 186-202: the terminal update under the lock
WorkerUpdate(j) ==
    /\ task[j] = "update"
    /\ lock = "free"
    /\ task' = [task EXCEPT ![j] = "done"]
    /\ outcome' = [outcome EXCEPT ![j] = "none"]
    /\ IF UpdateFinds(j)
       THEN /\ info' = [info EXCEPT
                  ![j].end_time = clock,
                  ![j].status = IF outcome[j] = "success" THEN COMPLETED ELSE FAILED,
                  ![j].progress = FinalProgress(outcome[j] = "success", info[j].progress),
                  ![j].error_message = IF outcome[j] = "success" THEN "None" ELSE outcome[j]]
            /\ clock' = clock + 1
            /\ download_history' = MoveToHistory(download_history, j)
            /\ active_downloads' = active_downloads \ {j}
            /\ futures' = futures \ {j}
       ELSE UNCHANGED <<info, clock, download_history, active_downloads, futures>>
    /\ UNCHANGED <<running, lock, queue_thread, download_queue, request,
                   nextId, loop, shutdown, work_queue>>
    /\ ret' = NoRet
    /\ UNCHANGED listed

\* ---------------------------------------------------------- specifications

SchedStep(t) ==
    \/ SchedWhile(t)
    \/ SchedPoll(t)
    \/ SchedGet(t)
    \/ SchedMark(t)
    \/ SchedSubmit(t)
    \/ SchedStore(t)

WorkerStep ==
    \/ WorkerTake
    \/ \E j \in Ids, ok \in BOOLEAN : WorkerLogin(j, ok)
    \/ \E j \in Ids, ok \in BOOLEAN : WorkerFetch(j, ok)
    \/ \E j \in Ids : WorkerUpdate(j)

\* The manager while it serves: every operation but stop().
NextServing ==
    \/ Start
    \/ \E req \in Requests, response \in Responses : AddToQueue(req, response)
    \/ \E id \in Ids : GetDownloadStatus(id)
    \/ GetAllDownloads(FALSE)
    \/ \E id \in Ids : CancelDownload(id)
    \/ \E t \in Loops : SchedStep(t)
    \/ WorkerStep

\* The serving manager with a caller that keeps get_all_downloads results.
NextListing ==
    \/ NextServing
    \/ GetAllDownloads(TRUE)

\* The application: the variables are the state of the manager instance the
\* HTTP routes call (RoutesManager); main() starts the instance MainManager,
\* and the routes submit, list, look up and cancel.  start() is called on no
\* other path, so the routes' instance has no loop thread and no worker unless
\* MainStart starts it.
NextApp ==
    \/ MainStart
    \/ \E req \in Requests, response \in Responses : AddToQueue(req, response)
    \/ \E id \in Ids : GetDownloadStatus(id)
    \/ GetAllDownloads(FALSE)
    \/ \E id \in Ids : CancelDownload(id)

\* Every operation of the manager.
Next ==
    \/ NextServing
    \/ StopBegin
    \/ StopFinish

Spec == Init /\ [][Next]_vars

SpecServing == Init /\ [][NextServing]_vars

SpecListing == Init /\ [][NextListing]_vars

SpecApp == Init /\ [][NextApp]_vars

\* What the threads guarantee while the manager serves: the loop thread and
\* the workers keep taking their steps (the manager lock is never held across
\* a step) and a call of the External Fetcher returns.  No facade call is ever
\* bound to happen.
FairnessServing ==
    /\ \A t \in Loops : WF_vars(SchedStep(t))
    /\ WF_vars(WorkerStep)

FairServing == SpecServing /\ FairnessServing

\* The application with the threads of the routes' manager, if it has any,
\* taking their steps.
FairApp == SpecApp /\ FairnessServing

\* The same with stop(): stop() runs to its end, and a step that needs the
\* manager lock is taken if the lock is free again and again.
Fairness ==
    /\ \A t \in Loops : SF_vars(SchedStep(t))
    /\ WF_vars(WorkerTake)
    /\ \A j \in Ids : WF_vars(\E ok \in BOOLEAN : WorkerLogin(j, ok))
    /\ \A j \in Ids : WF_vars(\E ok \in BOOLEAN : WorkerFetch(j, ok))
    /\ \A j \in Ids : SF_vars(WorkerUpdate(j))
    /\ WF_vars(StopFinish)

FairSpec == Spec /\ Fairness

\* ------------------------------------------------------------------ claims

\* Number of entries of a sequence of ids that are id.
Occurrences(seq, id) == Cardinality({i \in 1..Len(seq) : seq[i] = id})

\* C1: in every reachable state of the serving manager (submit, scheduler
\* polls, worker completions, cancel calls in any interleaving) the active set,
\* and the set of jobs with status Downloading, hold at most
\* MAX_CONCURRENT_DOWNLOADS jobs.
C1_ActiveWithinLimit ==
    /\ Cardinality(active_downloads) <= MAX_CONCURRENT_DOWNLOADS
    /\ Cardinality({j \in Ids : info[j].status = DOWNLOADING}) <= MAX_CONCURRENT_DOWNLOADS

\* C1 witness: the active set is full, the scheduler has polled and gone back
\* to sleep, and a submitted job is left waiting in the queue.
C1_Witness ==
    /\ Cardinality(active_downloads) = MAX_CONCURRENT_DOWNLOADS
    /\ download_queue # <<>>
    /\ \E t \in Loops : loop[t].pc = "while"
    /\ \E j \in active_downloads : task[j] = "fetch"

\* C2: when cancel_download(j) and the worker's terminal update of j race,
\* the job makes one terminal transition and is inserted into the history
\* once: the one that runs first under the lock makes the job terminal and
\* puts it at the head of the history, where it then occurs once; the one that
\* runs second (the job is no longer active) changes no record and not the
\* history; a terminal record never changes again; no id occurs twice in the
\* history.
C2_RaceOneTerminalTransition ==
    /\ [](\A j \in Ids : Occurrences(download_history, j) <= 1)
    /\ [][\A j \in Ids :
            /\ (info[j].status \in Terminal) => (info'[j] = info[j])
            /\ ((WorkerUpdate(j) \/ CancelDownload(j)) /\ j \notin active_downloads)
                 => (info' = info /\ download_history' = download_history)
            /\ ((WorkerUpdate(j) \/ CancelDownload(j)) /\ j \in active_downloads)
                 => /\ info'[j].status \in Terminal
                    /\ info'[j].end_time = clock
                    /\ download_history' # <<>>
                    /\ download_history'[1] = j
                    /\ Occurrences(download_history', j) = 1
         ]_vars

\* C2 witness: both orders of the race have run: job a was canceled first and
\* its worker then ran its terminal update to the end; job b was finished by
\* its worker first and a cancel_download(b) has just returned False.
C2_Witness ==
    \E a \in Ids, b \in Ids :
        /\ a # b
        /\ info[a].status = CANCELED
        /\ task[a] = "done"
        /\ info[b].status \in {COMPLETED, FAILED}
        /\ task[b] = "done"
        /\ ret = [op |-> "cancel_download", id |-> b, val |-> "False"]

\* The status changes the lifecycle allows.
LegalTransition(old, new) ==
    \/ new = old
    \/ old = NoRecord /\ new = QUEUED
    \/ old = QUEUED /\ new \in {DOWNLOADING, CANCELED}
    \/ old = DOWNLOADING /\ new \in Terminal

\* C3: a job's status changes only along Queued -> Downloading,
\* Downloading -> Completed | Failed | Canceled and Queued -> Canceled, and a
\* status that is Completed, Failed or Canceled is changed by no operation
\* (cancel, worker completion, scheduler step, start, stop).
C3_StatusTransitions ==
    [][\A j \in Ids :
          /\ LegalTransition(info[j].status, info'[j].status)
          /\ (info[j].status \in Terminal) => (info'[j].status = info[j].status)
      ]_vars

\* C3 witness: stop() is running (it holds the lock) while one job is Canceled
\* with its worker's terminal update already run, and the other job has been
\* finished by its worker.
C3_Witness ==
    \E a \in Ids, b \in Ids :
        /\ lock = "stop"
        /\ info[a].status = CANCELED
        /\ task[a] = "done"
        /\ info[b].status \in {COMPLETED, FAILED}

\* Number of containers (queue entries, active set, history entries) holding id.
Holders(id) ==
    Occurrences(download_queue, id)
      + (IF id \in active_downloads THEN 1 ELSE 0)
      + Occurrences(download_history, id)

\* C4: in every reachable state each submitted job that has not been evicted
\* from the history is held by exactly one of the queue, the active set and
\* the history, and its status matches the container: Queued in the queue,
\* Downloading in the active set, terminal in the history. (A terminal job in
\* no container is one the history has evicted.)
C4_ExactlyOneContainer ==
    \A j \in Ids :
        (info[j].status # NoRecord) =>
            /\ Holders(j) <= 1
            /\ (info[j].status = QUEUED) => InQueue(j)
            /\ (info[j].status = DOWNLOADING) => (j \in active_downloads)
            /\ InQueue(j) => (info[j].status = QUEUED)
            /\ (j \in active_downloads) => (info[j].status = DOWNLOADING)
            /\ InHistory(j) => (info[j].status \in Terminal)

\* C5: cancel_download(id) on a job that is still in the submission queue
\* returns True, removes the job from the queue and records it as Canceled
\* (so that it is never dispatched).
C5_CancelQueued ==
    [][\A id \in Ids :
          (InQueue(id) /\ CancelDownload(id)) =>
              /\ ret'.val = "True"
              /\ ~InQueue(id)'
              /\ info'[id].status = CANCELED
      ]_vars

\* C6: cancel_download(id) on a job of the active set is never held up by the
\* job's worker (it is enabled whenever the manager lock is free, whatever the
\* External Fetcher is doing) and in one step returns True, sets status
\* Canceled and the end time, removes the job from the active set and puts it
\* at the head of the history.
C6_CancelActive ==
    /\ [](\A id \in active_downloads : (lock = "free") => ENABLED CancelDownload(id))
    /\ [][\A id \in Ids :
            (id \in active_downloads /\ CancelDownload(id)) =>
                /\ ret' = [op |-> "cancel_download", id |-> id, val |-> "True"]
                /\ info'[id].status = CANCELED
                /\ info'[id].end_time = clock
                /\ info'[id].end_time # 0
                /\ id \notin active_downloads'
                /\ download_history' # <<>>
                /\ download_history'[1] = id
         ]_vars

\* C6 witness: cancel_download(j) has just returned True while the worker of j
\* is inside the External Fetcher's fetch call; j is Canceled and in the history.
C6_Witness ==
    \E j \in Ids :
        /\ ret = [op |-> "cancel_download", id |-> j, val |-> "True"]
        /\ task[j] = "fetch"
        /\ info[j].status = CANCELED
        /\ j \notin active_downloads
        /\ InHistory(j)

\* C7: get_download_status(id) for a job that add_to_queue has enqueued and the
\* scheduler has not dequeued returns the job's record, with status Queued.
C7_StatusOfQueued ==
    [][\A id \in Ids :
          (InQueue(id) /\ GetDownloadStatus(id)) => (ret'.val = QUEUED)
      ]_vars

\* C8: every job the scheduler has moved to Downloading eventually reaches a
\* terminal status and leaves the active set, whatever the External Fetcher
\* returns and whatever fault is raised while the job is dispatched.
C8_DownloadingTerminates ==
    \A j \in Ids :
        (info[j].status = DOWNLOADING)
            ~> (info[j].status \in Terminal /\ j \notin active_downloads)

\* C9: with the scheduler running, a job in the queue stays there, Queued, as
\* long as the active set is at the concurrency limit, and whenever the active
\* set has room the job at the head of the queue is eventually moved to
\* Downloading, with no facade call needed.
C9_QueuedUntilCapacity ==
    /\ [][\A j \in Ids :
            (InQueue(j) /\ Cardinality(active_downloads) >= MAX_CONCURRENT_DOWNLOADS)
                => (InQueue(j)' /\ info'[j].status = QUEUED)
         ]_vars
    /\ \A j \in Ids :
         (/\ running
          /\ download_queue # <<>>
          /\ Head(download_queue) = j
          /\ Cardinality(active_downloads) < MAX_CONCURRENT_DOWNLOADS)
            ~> (info[j].status = DOWNLOADING)

\* C9 witness: A was Downloading with B behind it in the queue, A has reached
\* a terminal state through its worker, and B is now Downloading with its
\* worker inside the fetch call.
C9_Witness ==
    /\ info[1].status \in {COMPLETED, FAILED}
    /\ info[2].status = DOWNLOADING
    /\ 2 \in active_downloads
    /\ task[2] = "fetch"
    /\ download_history = <<1>>

\* C10: jobs leave the queue in the order add_to_queue enqueued them (ids are
\* issued in enqueue order): while a job a is in the queue, every job b
\* enqueued after a is in the queue too, still Queued.
C10_FifoDispatch ==
    \A a \in Ids, b \in Ids :
        (a < b /\ InQueue(a) /\ info[b].status # NoRecord) =>
            (InQueue(b) /\ info[b].status = QUEUED)

\* C10 witness: both jobs were enqueued; the first has reached a terminal
\* state and the second has been moved to Downloading after it.
C10_Witness ==
    /\ info[1].status \in Terminal
    /\ info[2].status = DOWNLOADING
    /\ info[1].end_time # 0

\* C11: in every state a reader can observe (between two steps that hold the
\* manager lock) the history has at most MAX_HISTORY_SIZE entries; a step that
\* changes the history inserts one job at index 0 and, when the history was
\* full before, the oldest entry present before the step is absent after it.
C11_HistoryBounded ==
    /\ [](Len(download_history) <= MAX_HISTORY_SIZE)
    /\ [][(download_history' # download_history) =>
            /\ Len(download_history') <= MAX_HISTORY_SIZE
            /\ download_history' # <<>>
            /\ ~InHistory(download_history'[1])
            /\ (Len(download_history) = MAX_HISTORY_SIZE) =>
                  \A i \in 1..Len(download_history') :
                      download_history'[i] # download_history[Len(download_history)]
         ]_vars

\* C11 witness: the history is full and holds the job that became terminal
\* last; a job that became terminal before it has been evicted.
C11_Witness ==
    \E a \in Ids, b \in Ids :
        /\ Len(download_history) = MAX_HISTORY_SIZE
        /\ download_history[1] = b
        /\ info[a].status \in Terminal
        /\ info[a].end_time < info[b].end_time
        /\ ~InHistory(a)

\* The jobs that have reached a terminal status.
TerminalJobs == {j \in Ids : info[j].status \in Terminal}

C13_CancelUnknownOrTerminal ==
    [][\A id \in Ids :
          (/\ CancelDownload(id)
           /\ \/ id >= nextId
              \/ (info[id].status \in Terminal /\ InHistory(id)))
            => /\ ret' = [op |-> "cancel_download", id |-> id, val |-> "False"]
               /\ download_queue' = download_queue
               /\ active_downloads' = active_downloads
               /\ download_history' = download_history
               /\ info' = info
      ]_vars

\* C13 witness: job 1 has completed and is in the history, job 2 was never
\* issued, and cancel_download(1) has just returned False.
C13_Witness ==
    /\ nextId = 2
    /\ info[1].status = COMPLETED
    /\ download_history = <<1>>
    /\ ret = [op |-> "cancel_download", id |-> 1, val |-> "False"]

\* C14: get_download_status(id) returns None (not found) for every id that
\* add_to_queue has never returned, and changes nothing.
C14_StatusOfUnknown ==
    [][\A id \in Ids :
          (GetDownloadStatus(id) /\ id >= nextId)
            => /\ ret' = [op |-> "get_download_status", id |-> id, val |-> "None"]
               /\ info' = info
      ]_vars

\* C14 witness: job 1 is Downloading, id 2 has not been issued and
\* get_download_status(2) has just returned None.
C14_Witness ==
    /\ nextId = 2
    /\ info[1].status = DOWNLOADING
    /\ ret = [op |-> "get_download_status", id |-> 2, val |-> "None"]

\* Position of a work item on its way none -> pending -> login -> fetch ->
\* update -> done (a cancelled future is never run).
TaskRank(p) ==
    CASE p = "none" -> 0
      [] p = "pending" -> 1
      [] p = "login" -> 2
      [] p = "fetch" -> 3
      [] p = "update" -> 4
      [] OTHER -> 5

\* What the worker does around a login that returns false: the login is
\* called only for a request with anonymous false; the worker never goes back
\* (so the fetch, which comes after the login, is not invoked once the worker
\* has left the login for its terminal update); the false result sends it to
\* the terminal update with a non-empty error.
LoginFailureSkipsFetch(j) ==
    /\ TaskRank(task'[j]) >= TaskRank(task[j])
    /\ (task[j] # "login" /\ task'[j] = "login") => ~request[j].anonymous
    /\ WorkerLogin(j, FALSE) =>
          /\ task'[j] = "update"
          /\ outcome'[j] = "Steam login failed"

\* C15 as stated: when the request needs a login (anonymous is false) and the
\* login returns false, the fetch is never invoked for the job and the job
\* ends Failed with a non-empty error message.
C15_LoginFailureFails ==
    [][\A j \in Ids :
          /\ LoginFailureSkipsFetch(j)
          /\ (WorkerUpdate(j) /\ outcome[j] = "Steam login failed")
                => /\ info'[j].status = FAILED
                   /\ info'[j].error_message \notin {"None", ""}
      ]_vars

\* C15 amended: the same, for a job that is still in the active set when its
\* worker runs the terminal update (a job canceled in the meantime stays
\* Canceled); the job is then Failed, with the end time set, the login error
\* as message, and at the head of the history.
C15_LoginFailureFailsIfActive ==
    [][\A j \in Ids :
          /\ LoginFailureSkipsFetch(j)
          /\ (WorkerUpdate(j) /\ outcome[j] = "Steam login failed"
                 /\ j \in active_downloads)
                => /\ info'[j].status = FAILED
                   /\ info'[j].error_message = "Steam login failed"
                   /\ info'[j].error_message \notin {"None", ""}
                   /\ info'[j].end_time # 0
                   /\ j \notin active_downloads'
          /\ (WorkerUpdate(j) /\ outcome[j] = "Steam login failed"
                 /\ j \notin active_downloads)
                => info'[j] = info[j]
      ]_vars

\* C15 witness: the worker of job 1 has finished after a failed login; the
\* job is Failed with the login error and in the history.
C15_Witness ==
    /\ task[1] = "done"
    /\ info[1].status = FAILED
    /\ info[1].error_message = "Steam login failed"
    /\ download_history = <<1>>

\* C16: when the fetch of job j returns success and j is still in the active
\* set when its worker runs the terminal update, the job's status becomes
\* Completed, its progress 100, its end time is set, its error message is
\* empty, and it moves from the active set to the head of the history. The
\* worker reports success only after a fetch that returned success.
C16_FetchSuccessCompletes ==
    [][\A j \in Ids :
          /\ WorkerFetch(j, TRUE) => (task'[j] = "update" /\ outcome'[j] = "success")
          /\ (outcome'[j] = "success" /\ outcome[j] # "success") => (task[j] = "fetch")
          /\ (WorkerUpdate(j) /\ outcome[j] = "success" /\ j \in active_downloads)
                => /\ info'[j].status = COMPLETED
                   /\ info'[j].progress = 100
                   /\ info'[j].end_time = clock
                   /\ info'[j].end_time # 0
                   /\ info'[j].error_message = "None"
                   /\ j \notin active_downloads'
                   /\ download_history'[1] = j
      ]_vars

\* C16 witness: job 1 was canceled, job 2 was fetched with success after it
\* and is Completed with progress 100, an end time and no error message.
C16_Witness ==
    /\ info[1].status = CANCELED
    /\ task[2] = "done"
    /\ info[2].status = COMPLETED
    /\ info[2].progress = 100
    /\ info[2].error_message = "None"
    /\ info[2].end_time > info[1].end_time
    /\ download_history = <<2>>

\* C17: when the fetch of job j returns failure (steam_cmd.download_game
\* returns False for a failed run, for a run that exceeded DOWNLOAD_TIMEOUT
\* and for one that raised) and j is still in the active set when its worker
\* runs the terminal update, the job's status becomes Failed, its end time is
\* set, its error message is a non-empty text, its progress is left as it
\* was, and it moves from the active set to the head of the history.
C17_FetchFailureFails ==
    [][\A j \in Ids :
          /\ WorkerFetch(j, FALSE)
                => (task'[j] = "update" /\ outcome'[j] = "Steam download failed")
          /\ (WorkerUpdate(j) /\ outcome[j] = "Steam download failed"
                 /\ j \in active_downloads)
                => /\ info'[j].status = FAILED
                   /\ info'[j].end_time = clock
                   /\ info'[j].end_time # 0
                   /\ info'[j].error_message = "Steam download failed"
                   /\ info'[j].error_message \notin {"None", ""}
                   /\ info'[j].progress = info[j].progress
                   /\ j \notin active_downloads'
                   /\ download_history'[1] = j
      ]_vars

\* C17 witness: the fetch of job 1 failed; the job is Failed with the fetch
\* error and an end time, out of the active set and in the history, while job
\* 2 waits in the queue.
C17_Witness ==
    /\ task[1] = "done"
    /\ info[1].status = FAILED
    /\ info[1].error_message = "Steam download failed"
    /\ info[1].end_time # 0
    /\ 1 \notin active_downloads
    /\ download_history = <<1>>
    /\ download_queue = <<2>>

\* C18: a fault raised while a job is dispatched (executor.submit raises) or
\* executed (the worker routine raises) is recorded on that job as Failed,
\* and stops neither the scheduling loop nor the pool: a loop thread ends only
\* at its `while self.running` test, and while the manager is running every
\* job in the queue is eventually dequeued, dispatched and brought to a
\* terminal state.
C18_FaultsRecordedLoopGoesOn ==
    /\ [][\A t \in Loops :
            /\ (SchedSubmit(t) /\ shutdown) => (info'[loop[t].id].status = FAILED)
            /\ (loop[t].pc # "dead" /\ loop'[t].pc = "dead")
                  => (loop[t].pc = "while" /\ ~running)
         ]_vars
    /\ [][\A j \in Ids :
            (WorkerUpdate(j) /\ outcome[j] = "name 'Path' is not defined"
               /\ j \in active_downloads)
                => /\ info'[j].status = FAILED
                   /\ info'[j].error_message = "name 'Path' is not defined"
         ]_vars
    /\ \A j \in Ids :
          InQueue(j) ~> (info[j].status \in Terminal \/ ~running)

\* C19: add_to_queue does not wait for dispatch: it can return whenever the
\* manager lock is free, whatever the scheduling loop and the workers are
\* doing (the model issues at most MaxJobs ids). It returns the fresh id with
\* the job at the tail of the queue in status Queued and nothing else
\* changed, and when the name lookup raises, answers without success or
\* yields no name, the job's name is "Unknown Game".
C19_SubmitReturnsId ==
    /\ [](\A req \in Requests, response \in Responses :
            (lock = "free" /\ nextId <= MaxJobs) => ENABLED AddToQueue(req, response))
    /\ [][\A req \in Requests, response \in Responses :
            AddToQueue(req, response) =>
                /\ info[nextId].status = NoRecord
                /\ ret' = [op |-> "add_to_queue", id |-> nextId, val |-> "id"]
                /\ download_queue' = Append(download_queue, nextId)
                /\ info'[nextId].status = QUEUED
                /\ (response # "data_named") => (info'[nextId].name = "Unknown Game")
                /\ \A j \in Ids \ {nextId} : info'[j] = info[j]
                /\ active_downloads' = active_downloads
                /\ download_history' = download_history
         ]_vars

\* C19 witness: the active set is full with job 1 inside the fetch, and
\* add_to_queue has just returned id 2: job 2 is Queued at the tail of the
\* queue under the placeholder name.
C19_Witness ==
    /\ ret = [op |-> "add_to_queue", id |-> 2, val |-> "id"]
    /\ task[1] = "fetch"
    /\ Cardinality(active_downloads) = MAX_CONCURRENT_DOWNLOADS
    /\ download_queue = <<2>>
    /\ info[2].status = QUEUED
    /\ info[2].name = "Unknown Game"

\* stop() has returned and start() has not been called since: the executor
\* is shut down, running is false and nobody is inside stop().
StopReturned == shutdown /\ ~running /\ lock = "free"

\* C20: once stop() has returned, and as long as start() is not called again,
\* no job goes from Queued to Downloading and no job is added to the active
\* set.
C20_NoDispatchAfterStop ==
    [][StopReturned =>
          /\ \A j \in Ids :
                ~(info[j].status = QUEUED /\ info'[j].status = DOWNLOADING)
          /\ active_downloads' \subseteq active_downloads
      ]_vars

\* C21: get_download_status and get_all_downloads have no side effects: a
\* call of either leaves the queue, the active set, the history and every
\* job record unchanged (and so does everything else the manager holds).
C21_ReadsHaveNoEffect ==
    [][((\E id \in Ids : GetDownloadStatus(id)) \/ (\E keep \in BOOLEAN : GetAllDownloads(keep)))
          => /\ download_queue' = download_queue
             /\ active_downloads' = active_downloads
             /\ download_history' = download_history
             /\ info' = info
             /\ futures' = futures
             /\ task' = task
             /\ running' = running
      ]_vars

\* C21 witness: get_all_downloads has just returned while one job is in the
\* history and the other is Downloading in the active set.
C21_Witness ==
    /\ ret = [op |-> "get_all_downloads", id |-> 0, val |-> "dict"]
    /\ download_history = <<1>>
    /\ active_downloads = {2}
    /\ info[2].status = DOWNLOADING

\* C22: a result of get_all_downloads that its caller kept is a snapshot:
\* whatever the manager does after the call returned, the history collection
\* of the result holds the entries it held at the return, the active
\* collection holds the jobs it held, and the records in both show the
\* status they showed.
C22_ListingIsSnapshot ==
    listed.taken =>
        /\ ResultHistory = listed.history
        /\ ResultActive = listed.active
        /\ \A j \in Ids :
              (j \in listed.active \/ \E i \in 1..Len(listed.history) : listed.history[i] = j)
                  => (ResultRecord(j).status = listed.status[j])

\* C23: submissions for the same package are not deduplicated (all
\* submissions here are for one package): every add_to_queue call returns an
\* id no earlier call returned and appends a new job to the queue next to the
\* ones already there; and with the manager running each queued job is
\* eventually dispatched and reaches a terminal state of its own, whatever
\* became of the other.
C23_NoDeduplication ==
    /\ [][\A req \in Requests, response \in Responses :
            AddToQueue(req, response) =>
                /\ \A j \in Ids : (info[j].status # NoRecord) => (ret'.id # j)
                /\ ~InQueue(ret'.id)
                /\ download_queue' = Append(download_queue, ret'.id)
                /\ \A j \in Ids : InQueue(j) => InQueue(j)'
         ]_vars
    /\ \A j \in Ids :
          (running /\ InQueue(j)) ~> (info[j].status \in Terminal /\ ~InQueue(j))

\* C23 witness: two submissions got the same name from the lookup, both
\* workers have finished, and the two jobs ended differently: job 1
\* Completed, job 2 Failed.
C23_Witness ==
    /\ info[1].name = "Game"
    /\ info[2].name = "Game"
    /\ task[1] = "done"
    /\ task[2] = "done"
    /\ info[1].status = COMPLETED
    /\ info[2].status = FAILED

\* C24: the worker of a dispatched job resolves the destination (the
\* request's install-path override when it carries one, the default derived
\* from the package id otherwise) and goes on to the External Fetcher: when a
\* pool thread starts the work item of job j, the worker's next call is the
\* login or the fetch, with no error recorded; so a request with an override
\* can reach Completed.
C24_DestinationResolved ==
    [][\A j \in Ids :
          (WorkerTake /\ work_queue # <<>> /\ Head(work_queue) = j /\ task[j] = "pending")
            => /\ task'[j] \in {"login", "fetch"}
               /\ outcome'[j] = "none"
      ]_vars

\* C25: in every reachable state the progress of every job record is 0 or
\* 100, and it is 100 exactly when the job's status is Completed: Queued,
\* Downloading, Failed and Canceled jobs have progress 0.
C25_ProgressZeroOrHundred ==
    \A j \in Ids :
        (info[j].status # NoRecord) =>
            /\ info[j].progress \in {0, 100}
            /\ (info[j].progress = 100) <=> (info[j].status = COMPLETED)

\* C25 witness: job 1 is Completed with progress 100 while job 2 is
\* Downloading, its worker inside the fetch, with progress 0.
C25_Witness ==
    /\ info[1].status = COMPLETED
    /\ info[1].progress = 100
    /\ info[2].status = DOWNLOADING
    /\ task[2] = "fetch"
    /\ info[2].progress = 0

\* C26: once cancel_download(j) has returned True (the record of j is
\* Canceled), no call of the External Fetcher is started for j: the worker of
\* j enters neither the login nor the fetch, also when the cancel came between
\* the scheduler's registration of j in the active set and the submission to
\* the executor.
C26_NoFetcherAfterCancel ==
    [][\A j \in Ids :
          (info[j].status = CANCELED) =>
              /\ (task'[j] = "login") => (task[j] = "login")
              /\ (task'[j] = "fetch") => (task[j] = "fetch")
      ]_vars

\* C27: the number of External Fetcher calls (login or fetch) executing at
\* the same time never exceeds MAX_CONCURRENT_DOWNLOADS, also after running
\* jobs were canceled and their slots in the active set refilled while their
\* workers go on with the fetch.
C27_FetcherCallsWithinLimit ==
    Cardinality({j \in Ids : task[j] \in {"login", "fetch"}}) <= MAX_CONCURRENT_DOWNLOADS

\* C27 witness: job 1 was canceled while its worker is inside the fetch and
\* goes on with it; its slot in the active set has been refilled with job 2,
\* whose work item waits in the executor for the pool thread.
C27_Witness ==
    /\ info[1].status = CANCELED
    /\ task[1] = "fetch"
    /\ active_downloads = {2}
    /\ info[2].status = DOWNLOADING
    /\ task[2] = "pending"
    /\ work_queue = <<2>>
    /\ 2 \in futures

\* The scheduling-loop threads that exist and have not ended.
LiveLoops == {t \in Loops : loop[t].pc \notin {"unborn", "dead"}}

\* C28: whatever sequence of start() and stop() calls is made, at most one
\* thread is executing _process_queue at any time: start() while running
\* creates no second loop, and a start() after a stop() does not leave the
\* previous loop running next to the new one.
C28_OneSchedulingLoop == Cardinality(LiveLoops) <= 1

\* C29: stop() leaves no job Downloading for ever: every job that is in the
\* active set while stop() runs, and every job a loop thread has dequeued and
\* is about to register while stop() holds the lock, eventually reaches a
\* terminal status and is out of the active set.
C29_StopLeavesNoneDownloading ==
    \A j \in Ids :
        (/\ lock = "stop"
         /\ \/ j \in active_downloads
            \/ \E t \in Loops : loop[t].pc = "mark" /\ loop[t].id = j)
          ~> (info[j].status \in Terminal /\ j \notin active_downloads)

\* C30: after stop() followed by start() (the manager runs again, with the
\* executor stop() shut down), a job that add_to_queue has just accepted
\* is eventually dispatched and reaches a terminal state, unless the manager
\* is stopped again.
C30_RestartedManagerWorks ==
    \A j \in Ids :
        (shutdown /\ running /\ ret = [op |-> "add_to_queue", id |-> j, val |-> "id"])
          ~> (info[j].status \in Terminal \/ ~running)

\* Number of steps the loop thread can still take, at most, before it has
\* ended or waits for the manager lock, once self.running is false.
StepsToJoin(pc) ==
    CASE pc \in {"dead", "unborn", "mark", "store"} -> 0
      [] pc = "while" -> 1
      [] pc \in {"get", "submit"} -> 2
      [] OTHER -> 3

\* The same for the thread stop() joins.
JoinDistance == IF queue_thread = 0 THEN 0 ELSE StepsToJoin(loop[queue_thread].pc)

\* C31: stop() always returns; it cannot deadlock with the scheduling loop
\* or with a worker waiting for the manager lock. While stop() holds the lock
\* and joins the loop thread, either the join can return and stop() can run
\* to its end, or the joined thread can take a step without the lock; every
\* step of the joined thread brings it closer to its end or to its wait for
\* the lock, where the join returns; and nothing but the end of stop()
\* releases the lock.
C31_StopReturns ==
    /\ []((lock = "stop") =>
            IF JoinDistance = 0 THEN ENABLED StopFinish
            ELSE ENABLED SchedStep(queue_thread))
    /\ [][(lock = "stop") =>
            /\ (queue_thread' = queue_thread)
            /\ (queue_thread # 0 /\ loop'[queue_thread] # loop[queue_thread])
                  => (StepsToJoin(loop'[queue_thread].pc) < JoinDistance)
            /\ (lock' # "stop") => (lock' = "free" /\ shutdown' /\ ~running')
         ]_vars

\* C31 witness: stop() has returned after its join timed out: the loop
\* thread it joined has still to register the job it dequeued, and a worker
\* is at its terminal update, for which it needs the lock.
C31_Witness ==
    /\ shutdown
    /\ ~running
    /\ lock = "free"
    /\ queue_thread # 0
    /\ loop[queue_thread].pc = "mark"
    /\ \E j \in Ids : task[j] = "update"

\* C32: the manager the HTTP routes submit to is the one whose scheduling
\* loop the application's entry point starts, so that a job submitted through
\* POST /downloads is eventually dequeued and dispatched (it leaves the
\* queue and its status is no longer Queued).
C32_RoutesJobsDispatched ==
    \A j \in Ids :
        InQueue(j) ~> (~InQueue(j) /\ info[j].status \in {DOWNLOADING} \cup Terminal)

\* No iteration of a scheduling loop is between its dequeue and the end of
\* its store, no worker is executing _download_game or waiting for a pool
\* thread, and no call holds the manager lock.
Quiescent ==
    /\ lock = "free"
    /\ \A t \in Loops : loop[t].pc \notin {"mark", "submit", "store"}
    /\ \A j \in Ids : task[j] \notin RunningTasks \cup {"pending"}

\* C33: whenever no scheduler step and no worker step is in progress, every
\* key of the futures map is the id of a job in the active set: no future
\* entry outlives its job, also when the worker finishes or cancel_download
\* runs before the scheduler has stored the job's future.
C33_FuturesAreActive ==
    Quiescent => futures \subseteq active_downloads

====
